---- MODULE Spec2Model ----
(***************************************************************************)
(* Model of the resource core of wasmi:                                    *)
(*   - TableEntity (src/src/module/v2/table.rs)                            *)
(*   - ConstPool   (src/wasmi_v1/src/engine2/const_pool.rs)                *)
(*   - the `.wast` runner: TestContext, TestProfile and execute_directives *)
(*     (src/tests/spec/v1/run.rs)                                          *)
(* Machine integers are scaled down: usize ranges over 0..USIZE_MAX and    *)
(* u32 over 0..U32_MAX, with U32_MAX <= USIZE_MAX as on every Rust target. *)
(***************************************************************************)
EXTENDS Integers, Naturals, Sequences, FiniteSets, TLC

(***************************************************************************)
(* Scaled machine ranges                                                   *)
(***************************************************************************)
\* usize::MAX, scaled down
USIZE_MAX == 7

\* u32::MAX, scaled down (table.rs:103 `u32::MAX as usize`)
U32_MAX == 4

\* i32::MAX, scaled down (const_pool.rs:26 `i32::MAX as usize`)
I32_MAX == 3

\* width in bits of the constants handed to the pool, scaled down
ConstBits == 2

Usize == 0..USIZE_MAX

\* the longest `.wast` script run
MaxScript == 3

\* the most modules instantiated through direct calls on a TestContext
MaxModules == 3

(***************************************************************************)
(* Values                                                                  *)
(***************************************************************************)
\* Option<T>
None == [some |-> FALSE]

Some(x) == [some |-> TRUE, val |-> x]

\* Result<T, E>
Ok(x) == [ok |-> TRUE, val |-> x]

Err(e) == [ok |-> FALSE, err |-> e]

\* the unit value ()
Unit == "unit"

\* function references storable in a table slot
FuncRefs == {"f1", "f2"}

\* Option<FuncRef>
OptFuncRefs == {None} \cup {Some(f) : f \in FuncRefs}

\* Option<usize>::None of ResizableLimits::maximum()
NoMax == -1

\* pre-validated limits handed over by the decoder: initial <= maximum when
\* a maximum is present, both within the 32-bit range
ValidLimits == {l \in [initial : 0..U32_MAX, maximum : {NoMax} \cup (0..U32_MAX)] :
                  l.maximum = NoMax \/ l.initial <= l.maximum}

\* TableError::GrowOutOfBounds
GrowOutOfBounds(maximum, current, grow_by) ==
  [kind |-> "GrowOutOfBounds", maximum |-> maximum, current |-> current, grow_by |-> grow_by]

\* TableError::AccessOutOfBounds
AccessOutOfBounds(current, offset) ==
  [kind |-> "AccessOutOfBounds", current |-> current, offset |-> offset]

VARIABLES
  limits,     \* TableEntity.limits
  elements,   \* TableEntity.elements
  ret,        \* the last table call: its name, arguments and result
  values,     \* ConstPool.values
  handed,     \* every (value, handle) pair alloc_const has returned so far
  pret,       \* the last pool call: its name, argument and result
  panicked,   \* an assertion has terminated the process
  probe,      \* the latest get since the last set: offset, result, grown since
  func_types, \* ModuleBuilder.func_types
  pushed,     \* every (signature, index) pair push_func_type has returned so far
  bret,       \* the last builder call: its name, argument and outcome
  stores,     \* the stores of the host, each with its identity and table arena
  held,       \* the Table handles the host holds, by holder
  sret,       \* the last call through a Table handle: name, arguments, outcome
  modules,    \* TestContext.modules
  instances,  \* TestContext.instances
  last_instance, \* TestContext.last_instance
  profile,    \* TestContext.profile
  cret,       \* the last call on the TestContext: name, arguments, result
  wast,       \* the number of directives of the script under execute_directives
  cursor,     \* the number of directives the loop has taken from the script
  directive,  \* the directive under `match`, None between two iterations
  eret        \* the outcome of execute_directives, None while it runs

tvars == <<limits, elements, ret>>

pvars == <<values, handed, pret, panicked>>

bvars == <<func_types, pushed, bret>>

svars == <<stores, held, sret>>

cvars == <<modules, instances, last_instance, cret>>

rvars == <<profile, wast, cursor, directive, eret>>

vars == <<limits, elements, ret, values, handed, pret, panicked, probe,
          func_types, pushed, bret, stores, held, sret,
          modules, instances, last_instance, profile, cret,
          wast, cursor, directive, eret>>

(***************************************************************************)
(* Library operations used by TableEntity                                  *)
(***************************************************************************)
\* faulty variant: the sum wraps around
wrapping_add(a, b) == Some((a + b) % (USIZE_MAX + 1))

\* usize::checked_add
checked_add(a, b) == IF a + b > USIZE_MAX THEN None ELSE Some(a + b)

\* faulty variant: the bound check is dropped
filter_unchecked(opt, maximum) == opt

\* Option::filter with the predicate of table.rs:107
filter_lt(opt, maximum) == IF opt.some /\ opt.val < maximum THEN opt ELSE None

\* Option::unwrap_or
unwrap_or(maximum, default) == IF maximum = NoMax THEN default ELSE maximum

\* faulty variant: a fresh vector of new_len copies of value
resize_cleared(els, new_len, value) == [i \in 1..new_len |-> value]

\* Vec::resize(new_len, value): truncates or appends copies of value
resize(els, new_len, value) ==
  IF new_len <= Len(els)
    THEN SubSeq(els, 1, new_len)
    ELSE els \o [i \in 1..(new_len - Len(els)) |-> value]

(***************************************************************************)
(* TableEntity                                                             *)
(***************************************************************************)
\* faulty variant: one slot more than limits.initial()
TableEntity_new_extra(lim) ==
  [limits |-> lim, elements |-> [i \in 1..(lim.initial + 1) |-> None]]

\* TableEntity::new: limits.initial() null slots
TableEntity_new(lim) == [limits |-> lim, elements |-> [i \in 1..lim.initial |-> None]]

\* TableEntity::limits
TableEntity_limits(lim) == lim

\* TableEntity::len
TableEntity_len(els) == Len(els)

\* faulty variant: resizes before the bound check, so a failing call leaves
\* the slots that still fitted below the maximum
TableEntity_grow_partial(lim, els, grow_by) ==
  LET maximum == unwrap_or(lim.maximum, U32_MAX)
      current == TableEntity_len(els)
      new_len == filter_lt(checked_add(current, grow_by), maximum)
      fitted  == IF maximum - 1 > current THEN maximum - 1 ELSE current
  IN  IF new_len.some
        THEN [res |-> Ok(Unit), elements |-> resize(els, new_len.val, None)]
        ELSE [res |-> Err(GrowOutOfBounds(maximum, current, grow_by)),
              elements |-> resize(els, fitted, None)]

\* faulty variant: the error carries current and maximum in swapped fields
TableEntity_grow_swapped(lim, els, grow_by) ==
  LET maximum == unwrap_or(lim.maximum, U32_MAX)
      current == TableEntity_len(els)
      new_len == filter_lt(checked_add(current, grow_by), maximum)
  IN  IF new_len.some
        THEN [res |-> Ok(Unit), elements |-> resize(els, new_len.val, None)]
        ELSE [res |-> Err(GrowOutOfBounds(current, maximum, grow_by)), elements |-> els]

\* TableEntity::grow: the result and the elements after the call
TableEntity_grow(lim, els, grow_by) ==
  LET maximum == unwrap_or(lim.maximum, U32_MAX)
      current == TableEntity_len(els)
      new_len == filter_lt(checked_add(current, grow_by), maximum)
  IN  IF new_len.some
        THEN [res |-> Ok(Unit), elements |-> resize(els, new_len.val, None)]
        ELSE [res |-> Err(GrowOutOfBounds(maximum, current, grow_by)), elements |-> els]

\* faulty variant: the error carries offset and current in swapped fields
TableEntity_get_swapped(els, offset) ==
  IF offset < Len(els)
    THEN Ok(els[offset + 1])
    ELSE Err(AccessOutOfBounds(offset, TableEntity_len(els)))

\* TableEntity::get
TableEntity_get(els, offset) ==
  IF offset < Len(els)
    THEN Ok(els[offset + 1])
    ELSE Err(AccessOutOfBounds(TableEntity_len(els), offset))

\* faulty variant: writes the slot before the requested one
TableEntity_set_off_by_one(els, offset, new_value) ==
  LET current == TableEntity_len(els)
  IN  IF offset < Len(els)
        THEN [res |-> Ok(Unit), elements |-> [els EXCEPT ![offset] = new_value]]
        ELSE [res |-> Err(AccessOutOfBounds(current, offset)), elements |-> els]

\* faulty variant: writes every slot from the requested one on
TableEntity_set_fill(els, offset, new_value) ==
  LET current == TableEntity_len(els)
  IN  IF offset < Len(els)
        THEN [res |-> Ok(Unit),
              elements |-> [i \in 1..Len(els) |-> IF i > offset THEN new_value ELSE els[i]]]
        ELSE [res |-> Err(AccessOutOfBounds(current, offset)), elements |-> els]

\* TableEntity::set: the result and the elements after the call
TableEntity_set(els, offset, new_value) ==
  LET current == TableEntity_len(els)
  IN  IF offset < Len(els)
        THEN [res |-> Ok(Unit), elements |-> [els EXCEPT ![offset + 1] = new_value]]
        ELSE [res |-> Err(AccessOutOfBounds(current, offset)), elements |-> els]

(***************************************************************************)
(* ConstRef                                                                *)
(***************************************************************************)
\* the constants a caller hands to alloc_const: signed integers
ConstInputs == (0 - 2^(ConstBits - 1))..(2^(ConstBits - 1) - 1)

\* T::into(): reinterprets the constant as its bit pattern
into_untyped(value) == value % (2^ConstBits)

\* the handles a caller can hold: from_usize is the only constructor
ConstRefs == 0..(I32_MAX - 1)

\* the outcome of a call that panics
Panic == [panic |-> TRUE]

\* the outcome of a call that returns x
Return(x) == [panic |-> FALSE, val |-> x]

\* faulty variant: shifts the value spectrum to avoid the zero value
ConstRef_into_usize_shifted(index) == index + 1

\* ConstRef::into_usize: `self.0 as usize`
ConstRef_into_usize(index) == index

\* faulty variant: the assertion admits i32::MAX itself
ConstRef_from_usize_inclusive(value) ==
  IF value <= I32_MAX THEN Return(value % (U32_MAX + 1)) ELSE Panic

\* ConstRef::from_usize: asserts value < i32::MAX, then `value as u32`
ConstRef_from_usize(value) ==
  IF value < I32_MAX THEN Return(value % (U32_MAX + 1)) ELSE Panic

(***************************************************************************)
(* DedupArena<ConstRef, UntypedValue>                                      *)
(***************************************************************************)
\* the empty arena: no entities, empty lookup
DedupArena_default == [entities |-> <<>>, entity2idx |-> <<>>]

\* DedupArena::len
DedupArena_len(arena) == Len(arena.entities)

\* DedupArena::alloc: returns the handle of an equal entity if the lookup
\* has one, otherwise appends the entity and returns the new handle
DedupArena_alloc(arena, entity) ==
  IF entity \in DOMAIN arena.entity2idx
    THEN [arena |-> arena, out |-> Return(arena.entity2idx[entity])]
    ELSE LET index == ConstRef_from_usize(Len(arena.entities))
         IN  IF index.panic
               THEN [arena |-> arena, out |-> Panic]
               ELSE [arena |-> [entities |-> Append(arena.entities, entity),
                                entity2idx |-> (entity :> index.val) @@ arena.entity2idx],
                     out |-> index]

\* DedupArena::get: the entity at the handle's position, if within the arena
DedupArena_get(arena, index) ==
  LET position == ConstRef_into_usize(index)
  IN  IF position < Len(arena.entities)
        THEN Some(arena.entities[position + 1])
        ELSE None

(***************************************************************************)
(* ConstPool                                                               *)
(***************************************************************************)
\* ConstPool::len
ConstPool_len(pool) == DedupArena_len(pool)

\* ConstPool::is_empty
ConstPool_is_empty(pool) == DedupArena_len(pool) = 0

\* faulty variant: appends without consulting the lookup
ConstPool_alloc_const_nodedup(pool, value) ==
  DedupArena_alloc([pool EXCEPT !.entity2idx = <<>>], into_untyped(value))

\* faulty variant: the conversion drops the sign bit
ConstPool_alloc_const_lossy(pool, value) ==
  DedupArena_alloc(pool, into_untyped(value) % (2^(ConstBits - 1)))

\* ConstPool::alloc_const: `self.values.alloc(value.into())`
ConstPool_alloc_const(pool, value) == DedupArena_alloc(pool, into_untyped(value))

\* faulty variant: a handle beyond the range resolves to the last constant
ConstPool_resolve_clamped(pool, index) ==
  IF ConstRef_into_usize(index) >= Len(pool.entities) /\ Len(pool.entities) > 0
    THEN Some(pool.entities[Len(pool.entities)])
    ELSE DedupArena_get(pool, index)

\* ConstPool::resolve: `self.values.get(index).copied()`
ConstPool_resolve(pool, index) == DedupArena_get(pool, index)

(***************************************************************************)
(* ModuleBuilder                                                           *)
(***************************************************************************)
\* the signatures a caller pushes
FuncTypes == {"t1", "t2"}

\* u32::try_from(usize), with the panic of unwrap_or_else on failure
u32_try_from(value) == IF value <= U32_MAX THEN Return(value) ELSE Panic

\* faulty variant: the index is taken after the push
ModuleBuilder_push_func_type_after(types, func_type) ==
  LET index == u32_try_from(Len(types) + 1)
  IN  IF index.panic
        THEN [func_types |-> types, out |-> Panic]
        ELSE [func_types |-> Append(types, func_type), out |-> index]

\* ModuleBuilder::push_func_type: the outcome and the signatures after the call
ModuleBuilder_push_func_type(types, func_type) ==
  LET index == u32_try_from(Len(types))
  IN  IF index.panic
        THEN [func_types |-> types, out |-> Panic]
        ELSE [func_types |-> Append(types, func_type), out |-> index]

\* ModuleBuilder::finish: `todo!()`
ModuleBuilder_finish(types) == Panic

(***************************************************************************)
(* TableIdx, Store and the Table handle                                    *)
(***************************************************************************)
\* TableIdx::into_usize
TableIdx_into_usize(index) == index

\* TableIdx::from_usize
TableIdx_from_usize(value) == value

\* the identities of the stores of the host
StoreIds == {"s1", "s2"}

\* Stored<TableIdx>: the handle paired with the identity of its store
Stored(store_idx, entity_idx) == [store |-> store_idx, idx |-> entity_idx]

\* Store::new: no tables yet
Store_new(store_idx) == [idx |-> store_idx, tables |-> <<>>]

\* Store::alloc_table: appends the entity and wraps its handle
Store_alloc_table(store, entity) ==
  [store |-> [store EXCEPT !.tables = Append(store.tables, entity)],
   handle |-> Stored(store.idx, TableIdx_from_usize(Len(store.tables)))]

\* Store::resolve_table and resolve_table_mut: the entity of the handle, or
\* a panic when the handle belongs to another store
Store_resolve_table(store, handle) ==
  IF handle.store # store.idx \/ TableIdx_into_usize(handle.idx) >= Len(store.tables)
    THEN Panic
    ELSE Return(store.tables[TableIdx_into_usize(handle.idx) + 1])

\* the store after the entity behind resolve_table_mut has been assigned
Store_assign_table(store, handle, entity) ==
  [store EXCEPT !.tables[TableIdx_into_usize(handle.idx) + 1] = entity]

\* Table::new
Table_new(store, lim) == Store_alloc_table(store, TableEntity_new(lim))

\* Table::limits
Table_limits(sts, self, ctx) ==
  LET e == Store_resolve_table(sts[ctx], self)
  IN  [stores |-> sts,
       out |-> IF e.panic THEN Panic ELSE Return(TableEntity_limits(e.val.limits))]

\* Table::len
Table_len(sts, self, ctx) ==
  LET e == Store_resolve_table(sts[ctx], self)
  IN  [stores |-> sts,
       out |-> IF e.panic THEN Panic ELSE Return(TableEntity_len(e.val.elements))]

\* faulty variant: grows a clone of the entity
Table_grow_detached(sts, self, ctx, grow_by) ==
  LET e == Store_resolve_table(sts[ctx], self)
  IN  IF e.panic
        THEN [stores |-> sts, out |-> Panic]
        ELSE [stores |-> sts,
              out |-> Return(TableEntity_grow(e.val.limits, e.val.elements, grow_by).res)]

\* Table::grow
Table_grow(sts, self, ctx, grow_by) ==
  LET e == Store_resolve_table(sts[ctx], self)
  IN  IF e.panic
        THEN [stores |-> sts, out |-> Panic]
        ELSE LET r == TableEntity_grow(e.val.limits, e.val.elements, grow_by)
             IN  [stores |-> [sts EXCEPT ![ctx] = Store_assign_table(
                                 sts[ctx], self, [e.val EXCEPT !.elements = r.elements])],
                  out |-> Return(r.res)]

\* Table::get
Table_get(sts, self, ctx, offset) ==
  LET e == Store_resolve_table(sts[ctx], self)
  IN  [stores |-> sts,
       out |-> IF e.panic THEN Panic ELSE Return(TableEntity_get(e.val.elements, offset))]

\* faulty variant: looks the entity up by its index alone
Table_set_unchecked(sts, self, ctx, offset, new_value) ==
  LET e == sts[ctx].tables[TableIdx_into_usize(self.idx) + 1]
      r == TableEntity_set(e.elements, offset, new_value)
  IN  [stores |-> [sts EXCEPT ![ctx] = Store_assign_table(
                      sts[ctx], self, [e EXCEPT !.elements = r.elements])],
       out |-> Return(r.res)]

\* Table::set
Table_set(sts, self, ctx, offset, new_value) ==
  LET e == Store_resolve_table(sts[ctx], self)
  IN  IF e.panic
        THEN [stores |-> sts, out |-> Panic]
        ELSE LET r == TableEntity_set(e.val.elements, offset, new_value)
             IN  [stores |-> [sts EXCEPT ![ctx] = Store_assign_table(
                                 sts[ctx], self, [e.val EXCEPT !.elements = r.elements])],
                  out |-> Return(r.res)]

(***************************************************************************)
(* TestContext (tests/spec/v1/run.rs)                                      *)
(***************************************************************************)
\* the module names of the scripts and of the lookups
Names == {"a", "b"}

\* Option<Id> of a module, Option<&str> of a lookup
OptNames == {None} \cup {Some(n) : n \in Names}

\* the binaries handed to compile_and_instantiate, by the step that rejects
\* them: Module::new, Linker::instantiate, ensure_no_start_fn, or none
WasmInputs == {"valid", "malformed", "unlinkable", "start_fn"}

\* TestError::InstanceNotRegistered
InstanceNotRegistered(name) == [kind |-> "InstanceNotRegistered", name |-> name]

\* TestError::NoModuleInstancesFound
NoModuleInstancesFound == [kind |-> "NoModuleInstancesFound"]

\* the error a `?` hands to the caller, by the step that raised it
WasmError(step) == [kind |-> step]

\* TestContext::default(): no module, no instance
TestContext_default ==
  [modules |-> <<>>, instances |-> [n \in Names |-> None], last_instance |-> None]

\* TestContext::compile_and_instantiate; the instance of the n-th module
\* of the context is written n
TestContext_compile_and_instantiate(ctx, id, wasm) ==
  IF wasm # "valid"
    THEN [ctx |-> ctx, res |-> Err(WasmError(wasm))]
    ELSE LET instance == Len(ctx.modules)
         IN  [ctx |-> [modules |-> Append(ctx.modules, wasm),
                       instances |-> IF id.some
                                       THEN [ctx.instances EXCEPT ![id.val] = Some(instance)]
                                       ELSE ctx.instances,
                       last_instance |-> Some(instance)],
              res |-> Ok(instance)]

\* TestContext::instance_by_name
TestContext_instance_by_name(ctx, name) ==
  IF ctx.instances[name].some
    THEN Ok(ctx.instances[name].val)
    ELSE Err(InstanceNotRegistered(name))

\* TestContext::instance_by_name_or_last
TestContext_instance_by_name_or_last(ctx, name) ==
  IF name.some
    THEN TestContext_instance_by_name(ctx, name.val)
    ELSE IF ctx.last_instance.some
           THEN Ok(ctx.last_instance.val)
           ELSE Err(NoModuleInstancesFound)

(***************************************************************************)
(* TestProfile (tests/spec/v1/run.rs)                                      *)
(***************************************************************************)
\* TestProfile::default()
TestProfile_default ==
  [directives |-> 0, module |-> 0, quote_module |-> 0, assert_malformed |-> 0,
   assert_invalid |-> 0, register |-> 0, invoke |-> 0, assert_trap |-> 0,
   assert_return |-> 0, assert_exhaustion |-> 0, assert_unlinkable |-> 0,
   assert_exception |-> 0]

TestProfile_bump_directives(p) == [p EXCEPT !.directives = @ + 1]

TestProfile_bump_module(p) == [p EXCEPT !.module = @ + 1]

\* faulty variant: the arm forgets its counter
TestProfile_bump_quote_module_skipped(p) == p

TestProfile_bump_quote_module(p) == [p EXCEPT !.quote_module = @ + 1]

TestProfile_bump_assert_malformed(p) == [p EXCEPT !.assert_malformed = @ + 1]

TestProfile_bump_assert_invalid(p) == [p EXCEPT !.assert_invalid = @ + 1]

TestProfile_bump_register(p) == [p EXCEPT !.register = @ + 1]

TestProfile_bump_invoke(p) == [p EXCEPT !.invoke = @ + 1]

TestProfile_bump_assert_trap(p) == [p EXCEPT !.assert_trap = @ + 1]

TestProfile_bump_assert_return(p) == [p EXCEPT !.assert_return = @ + 1]

TestProfile_bump_assert_exhaustion(p) == [p EXCEPT !.assert_exhaustion = @ + 1]

TestProfile_bump_assert_unlinkable(p) == [p EXCEPT !.assert_unlinkable = @ + 1]

TestProfile_bump_assert_exception(p) == [p EXCEPT !.assert_exception = @ + 1]

(***************************************************************************)
(* execute_directives (tests/spec/v1/run.rs)                               *)
(***************************************************************************)
\* the variants of WastDirective whose arm only counts
CountedKinds ==
  {"QuoteModule", "AssertMalformed", "AssertInvalid", "Register", "Invoke",
   "AssertTrap", "AssertReturn", "AssertExhaustion", "AssertUnlinkable",
   "AssertException"}

\* the module texts of a script: one that does not encode, or a binary
ModuleTexts == {"unencodable"} \cup WasmInputs

\* the directives of a script; Unknown is any variant without an arm
Directives ==
  {[kind |-> "Module", id |-> id, text |-> text] : id \in OptNames, text \in ModuleTexts}
    \cup {[kind |-> kind] : kind \in CountedKinds \cup {"Unknown"}}

\* the arm of WastDirective::Module: None when the loop goes on, or the
\* early return
execute_directives_module(ctx, p, d) ==
  IF d.text = "unencodable"
    THEN [ctx |-> ctx, profile |-> p, out |-> Some(Return(Err(WasmError(d.text))))]
    ELSE LET r == TestContext_compile_and_instantiate(ctx, d.id, d.text)
         IN  IF r.res.ok
               THEN [ctx |-> r.ctx, profile |-> TestProfile_bump_module(p), out |-> None]
               ELSE [ctx |-> r.ctx, profile |-> p, out |-> Some(Return(r.res))]

\* the arms that only count
execute_directives_counted(p, kind) ==
  CASE kind = "QuoteModule" -> TestProfile_bump_quote_module(p)
    [] kind = "AssertMalformed" -> TestProfile_bump_assert_malformed(p)
    [] kind = "AssertInvalid" -> TestProfile_bump_assert_invalid(p)
    [] kind = "Register" -> TestProfile_bump_register(p)
    [] kind = "Invoke" -> TestProfile_bump_invoke(p)
    [] kind = "AssertTrap" -> TestProfile_bump_assert_trap(p)
    [] kind = "AssertReturn" -> TestProfile_bump_assert_return(p)
    [] kind = "AssertExhaustion" -> TestProfile_bump_assert_exhaustion(p)
    [] kind = "AssertUnlinkable" -> TestProfile_bump_assert_unlinkable(p)
    [] kind = "AssertException" -> TestProfile_bump_assert_exception(p)

(***************************************************************************)
(* Components at rest                                                      *)
(***************************************************************************)
\* a fresh empty table, for the specifications of the other components
TableFresh ==
  LET lim == [initial |-> 0, maximum |-> NoMax]
  IN  /\ limits = TableEntity_new(lim).limits
      /\ elements = TableEntity_new(lim).elements
      /\ ret = [op |-> "new", limits |-> lim]
      /\ probe = None

\* ConstPool::default()
PoolFresh ==
  /\ values = DedupArena_default
  /\ handed = {}
  /\ pret = [op |-> "default"]
  /\ panicked = FALSE

\* ModuleBuilder::default()
BuilderFresh ==
  /\ func_types = <<>>
  /\ pushed = <<>>
  /\ bret = [op |-> "default"]

\* the holders of Table handles
Holders == {"a", "b"}

\* the limits of the tables made in the stores
StoreLimits == [initial |-> 1, maximum |-> 3]

\* two stores with one table each: holder a has the handle of the first
\* store's table, holder b that of the second's
StoreFresh ==
  LET t1 == Table_new(Store_new("s1"), StoreLimits)
      t2 == Table_new(Store_new("s2"), StoreLimits)
  IN  /\ stores = [id \in StoreIds |-> IF id = "s1" THEN t1.store ELSE t2.store]
      /\ held = [h \in Holders |-> IF h = "a" THEN t1.handle ELSE t2.handle]
      /\ sret = [op |-> "new"]

\* the TestContext as a record of the fields the lookups read
Context == [modules |-> modules, instances |-> instances, last_instance |-> last_instance]

\* TestContext::default()
ContextFresh ==
  /\ modules = TestContext_default.modules
  /\ instances = TestContext_default.instances
  /\ last_instance = TestContext_default.last_instance
  /\ cret = [op |-> "default"]

\* no script under execution
RunnerFresh ==
  /\ profile = TestProfile_default
  /\ wast = 0
  /\ cursor = 0
  /\ directive = None
  /\ eret = None

(***************************************************************************)
(* Table state machine                                                     *)
(***************************************************************************)
TableInit ==
  \E lim \in ValidLimits :
    /\ limits = TableEntity_new(lim).limits
    /\ elements = TableEntity_new(lim).elements
    /\ ret = [op |-> "new", limits |-> lim]
    /\ probe = None
    /\ PoolFresh
    /\ BuilderFresh
    /\ StoreFresh
    /\ ContextFresh
    /\ RunnerFresh

Limits ==
  /\ ret' = [op |-> "limits", res |-> TableEntity_limits(limits)]
  /\ UNCHANGED <<limits, elements, probe, pvars, bvars, svars, cvars, rvars>>

LenOp ==
  /\ ret' = [op |-> "len", res |-> TableEntity_len(elements)]
  /\ UNCHANGED <<limits, elements, probe, pvars, bvars, svars, cvars, rvars>>

Grow(grow_by) ==
  LET r == TableEntity_grow(limits, elements, grow_by)
  IN  /\ elements' = r.elements
      /\ ret' = [op |-> "grow", grow_by |-> grow_by, res |-> r.res]
      /\ UNCHANGED <<limits, probe, pvars, bvars, svars, cvars, rvars>>

Get(offset) ==
  /\ ret' = [op |-> "get", offset |-> offset, res |-> TableEntity_get(elements, offset)]
  /\ UNCHANGED <<limits, elements, probe, pvars, bvars, svars, cvars, rvars>>

Set(offset, new_value) ==
  LET r == TableEntity_set(elements, offset, new_value)
  IN  /\ elements' = r.elements
      /\ ret' = [op |-> "set", offset |-> offset, new_value |-> new_value, res |-> r.res]
      /\ UNCHANGED <<limits, probe, pvars, bvars, svars, cvars, rvars>>

TableNext ==
  \/ Limits
  \/ LenOp
  \/ \E grow_by \in Usize : Grow(grow_by)
  \/ \E offset \in Usize : Get(offset)
  \/ \E offset \in Usize, new_value \in OptFuncRefs : Set(offset, new_value)

TableSpec == TableInit /\ [][TableNext]_vars

(***************************************************************************)
(* Table state machine that remembers the latest get                       *)
(***************************************************************************)
\* the values written in this specification
ProbedValues == {None, Some("f1")}

\* grow; a successful call is noted against the remembered get
ProbedGrow(grow_by) ==
  LET r == TableEntity_grow(limits, elements, grow_by)
  IN  /\ elements' = r.elements
      /\ ret' = [op |-> "grow", grow_by |-> grow_by, res |-> r.res]
      /\ probe' = IF probe.some /\ r.res.ok
                    THEN Some([probe.val EXCEPT !.grown = TRUE])
                    ELSE probe
      /\ UNCHANGED <<limits, pvars, bvars, svars, cvars, rvars>>

\* whether a get of offset repeats the remembered one, with no set and no
\* successful grow in between
Repeats(offset) == probe.some /\ probe.val.offset = offset /\ ~probe.val.grown

\* faulty variant: the get takes the value out of the slot
ProbedGet_taking(offset) ==
  LET res == TableEntity_get(elements, offset)
  IN  /\ ret' = [op |-> "get", offset |-> offset, res |-> res]
      /\ probe' = Some([offset |-> offset, res |-> res, grown |-> FALSE,
                        repeat |-> Repeats(offset)])
      /\ elements' = IF res.ok THEN [elements EXCEPT ![offset + 1] = None] ELSE elements
      /\ UNCHANGED <<limits, pvars, bvars, svars, cvars, rvars>>

\* get; the call and its result are remembered
ProbedGet(offset) ==
  LET res == TableEntity_get(elements, offset)
  IN  /\ ret' = [op |-> "get", offset |-> offset, res |-> res]
      /\ probe' = Some([offset |-> offset, res |-> res, grown |-> FALSE,
                        repeat |-> Repeats(offset)])
      /\ UNCHANGED <<limits, elements, pvars, bvars, svars, cvars, rvars>>

\* set; whatever get was remembered is forgotten
ProbedSet(offset, new_value) ==
  LET r == TableEntity_set(elements, offset, new_value)
  IN  /\ elements' = r.elements
      /\ ret' = [op |-> "set", offset |-> offset, new_value |-> new_value, res |-> r.res]
      /\ probe' = None
      /\ UNCHANGED <<limits, pvars, bvars, svars, cvars, rvars>>

ProbedNext ==
  \/ \E grow_by \in Usize : ProbedGrow(grow_by)
  \/ \E offset \in Usize : ProbedGet(offset)
  \/ \E offset \in Usize, new_value \in ProbedValues : ProbedSet(offset, new_value)

ProbedSpec == TableInit /\ [][ProbedNext]_vars

(***************************************************************************)
(* Constant pool state machine                                             *)
(***************************************************************************)
\* ConstPool::default(), beside a fresh empty table
PoolInit ==
  /\ PoolFresh
  /\ TableFresh
  /\ BuilderFresh
  /\ StoreFresh
  /\ ContextFresh
  /\ RunnerFresh

AllocConst(value) ==
  LET r == ConstPool_alloc_const(values, value)
  IN  /\ ~panicked
      /\ values' = r.arena
      /\ panicked' = r.out.panic
      /\ handed' = IF r.out.panic
                     THEN handed
                     ELSE handed \cup {[value |-> value, index |-> r.out.val]}
      /\ pret' = [op |-> "alloc_const", value |-> value, out |-> r.out]
      /\ UNCHANGED <<tvars, probe, bvars, svars, cvars, rvars>>

Resolve(index) ==
  /\ ~panicked
  /\ pret' = [op |-> "resolve", index |-> index, res |-> ConstPool_resolve(values, index)]
  /\ UNCHANGED <<values, handed, panicked, tvars, probe, bvars, svars, cvars, rvars>>

PoolNext ==
  \/ \E value \in ConstInputs : AllocConst(value)
  \/ \E index \in ConstRefs : Resolve(index)

PoolSpec == PoolInit /\ [][PoolNext]_vars

(***************************************************************************)
(* Module builder state machine                                            *)
(***************************************************************************)
BuilderInit ==
  /\ BuilderFresh
  /\ PoolFresh
  /\ TableFresh
  /\ StoreFresh
  /\ ContextFresh
  /\ RunnerFresh

PushFuncType(func_type) ==
  LET r == ModuleBuilder_push_func_type(func_types, func_type)
  IN  /\ ~panicked
      /\ func_types' = r.func_types
      /\ panicked' = r.out.panic
      /\ pushed' = IF r.out.panic
                     THEN pushed
                     ELSE Append(pushed, [func_type |-> func_type, index |-> r.out.val])
      /\ bret' = [op |-> "push_func_type", func_type |-> func_type, out |-> r.out]
      /\ UNCHANGED <<values, handed, pret, tvars, probe, svars, cvars, rvars>>

Finish ==
  LET out == ModuleBuilder_finish(func_types)
  IN  /\ ~panicked
      /\ panicked' = out.panic
      /\ bret' = [op |-> "finish", out |-> out]
      /\ UNCHANGED <<func_types, pushed, values, handed, pret, tvars, probe, svars, cvars, rvars>>

BuilderNext ==
  \/ \E func_type \in FuncTypes : PushFuncType(func_type)
  \/ Finish

BuilderSpec == BuilderInit /\ [][BuilderNext]_vars

(***************************************************************************)
(* Store state machine                                                     *)
(***************************************************************************)
\* the offsets and growth amounts of the calls through handles
StoreArgs == {0, 1, 2}

StoreInit ==
  /\ StoreFresh
  /\ BuilderFresh
  /\ PoolFresh
  /\ TableFresh
  /\ ContextFresh
  /\ RunnerFresh

\* the frame of a call through the handle of holder h against store ctx
Through(h, ctx, op, args, r) ==
  /\ ~panicked
  /\ stores' = r.stores
  /\ panicked' = r.out.panic
  /\ sret' = [op |-> op, holder |-> h, handle |-> held[h], ctx |-> ctx,
              args |-> args, out |-> r.out]
  /\ UNCHANGED <<held, values, handed, pret, tvars, probe, bvars, cvars, rvars>>

\* the handle is Copy: holder to receives a copy of the handle of from
CopyHandle(from, to) ==
  /\ ~panicked
  /\ held' = [held EXCEPT ![to] = held[from]]
  /\ sret' = [op |-> "copy", holder |-> from, handle |-> held[from]]
  /\ UNCHANGED <<stores, pvars, tvars, probe, bvars, cvars, rvars>>

HandleLimits(h, ctx) ==
  Through(h, ctx, "limits", <<>>, Table_limits(stores, held[h], ctx))

HandleLen(h, ctx) ==
  Through(h, ctx, "len", <<>>, Table_len(stores, held[h], ctx))

HandleGrow(h, ctx, grow_by) ==
  Through(h, ctx, "grow", <<grow_by>>, Table_grow(stores, held[h], ctx, grow_by))

HandleGet(h, ctx, offset) ==
  Through(h, ctx, "get", <<offset>>, Table_get(stores, held[h], ctx, offset))

HandleSet(h, ctx, offset, new_value) ==
  Through(h, ctx, "set", <<offset, new_value>>,
          Table_set(stores, held[h], ctx, offset, new_value))

StoreNext ==
  \/ \E from \in Holders, to \in Holders : CopyHandle(from, to)
  \/ \E h \in Holders, ctx \in StoreIds : HandleLimits(h, ctx)
  \/ \E h \in Holders, ctx \in StoreIds : HandleLen(h, ctx)
  \/ \E h \in Holders, ctx \in StoreIds, grow_by \in StoreArgs : HandleGrow(h, ctx, grow_by)
  \/ \E h \in Holders, ctx \in StoreIds, offset \in StoreArgs : HandleGet(h, ctx, offset)
  \/ \E h \in Holders, ctx \in StoreIds, offset \in StoreArgs, new_value \in ProbedValues :
       HandleSet(h, ctx, offset, new_value)

StoreSpec == StoreInit /\ [][StoreNext]_vars

(***************************************************************************)
(* TestContext state machine                                               *)
(***************************************************************************)
ContextInit ==
  /\ ContextFresh
  /\ RunnerFresh
  /\ StoreFresh
  /\ BuilderFresh
  /\ PoolFresh
  /\ TableFresh

CompileAndInstantiate(id, wasm) ==
  LET r == TestContext_compile_and_instantiate(Context, id, wasm)
  IN  /\ Len(modules) < MaxModules
      /\ modules' = r.ctx.modules
      /\ instances' = r.ctx.instances
      /\ last_instance' = r.ctx.last_instance
      /\ cret' = [op |-> "compile_and_instantiate", id |-> id, wasm |-> wasm,
                  res |-> r.res]
      /\ UNCHANGED <<rvars, svars, bvars, pvars, tvars, probe>>

InstanceByName(name) ==
  /\ cret' = [op |-> "instance_by_name", name |-> name,
              res |-> TestContext_instance_by_name(Context, name)]
  /\ UNCHANGED <<modules, instances, last_instance, rvars, svars, bvars, pvars,
                 tvars, probe>>

InstanceByNameOrLast(name) ==
  /\ cret' = [op |-> "instance_by_name_or_last", name |-> name,
              res |-> TestContext_instance_by_name_or_last(Context, name)]
  /\ UNCHANGED <<modules, instances, last_instance, rvars, svars, bvars, pvars,
                 tvars, probe>>

ContextNext ==
  \/ \E id \in OptNames, wasm \in WasmInputs : CompileAndInstantiate(id, wasm)
  \/ \E name \in Names : InstanceByName(name)
  \/ \E name \in OptNames : InstanceByNameOrLast(name)

ContextSpec == ContextInit /\ [][ContextNext]_vars

(***************************************************************************)
(* execute_directives state machine                                        *)
(***************************************************************************)
\* execute_directives is entered with a fresh context and a script of any
\* length; the directives are drawn as the loop takes them
RunnerInit ==
  /\ wast \in 0..MaxScript
  /\ profile = TestProfile_default
  /\ cursor = 0
  /\ directive = None
  /\ eret = None
  /\ ContextFresh
  /\ StoreFresh
  /\ BuilderFresh
  /\ PoolFresh
  /\ TableFresh

\* the loop takes the next directive and counts it
TakeDirective(d) ==
  /\ eret = None
  /\ directive = None
  /\ cursor < wast
  /\ cursor' = cursor + 1
  /\ directive' = Some(d)
  /\ profile' = TestProfile_bump_directives(profile)
  /\ UNCHANGED <<wast, eret, cvars, svars, bvars, pvars, tvars, probe>>

ModuleArm ==
  /\ eret = None
  /\ directive.some
  /\ directive.val.kind = "Module"
  /\ LET d == directive.val
         r == execute_directives_module(Context, profile, d)
     IN  /\ modules' = r.ctx.modules
         /\ instances' = r.ctx.instances
         /\ last_instance' = r.ctx.last_instance
         /\ profile' = r.profile
         /\ eret' = r.out
         /\ cret' = IF d.text = "unencodable"
                      THEN cret
                      ELSE [op |-> "compile_and_instantiate", id |-> d.id,
                            wasm |-> d.text,
                            res |-> TestContext_compile_and_instantiate(
                                      Context, d.id, d.text).res]
  /\ directive' = None
  /\ UNCHANGED <<wast, cursor, svars, bvars, pvars, tvars, probe>>

CountedArm ==
  /\ eret = None
  /\ directive.some
  /\ directive.val.kind \in CountedKinds
  /\ profile' = execute_directives_counted(profile, directive.val.kind)
  /\ directive' = None
  /\ UNCHANGED <<wast, cursor, eret, cvars, svars, bvars, pvars, tvars, probe>>

\* `_unknown => panic!(..)`
UnknownArm ==
  /\ eret = None
  /\ directive.some
  /\ directive.val.kind = "Unknown"
  /\ eret' = Some(Panic)
  /\ directive' = None
  /\ UNCHANGED <<wast, cursor, profile, cvars, svars, bvars, pvars, tvars, probe>>

\* the script is exhausted: `Ok(())`
ReturnOk ==
  /\ eret = None
  /\ directive = None
  /\ cursor = wast
  /\ eret' = Some(Return(Ok(Unit)))
  /\ UNCHANGED <<wast, cursor, profile, directive, cvars, svars, bvars, pvars,
                 tvars, probe>>

RunnerNext ==
  \/ \E d \in Directives : TakeDirective(d)
  \/ ModuleArm
  \/ CountedArm
  \/ UnknownArm
  \/ ReturnOk

RunnerSpec == RunnerInit /\ [][RunnerNext]_vars

(***************************************************************************)
(* Properties of TableEntity                                               *)
(***************************************************************************)
\* the bound that applies to growth: the declared maximum, or u32::MAX
EffectiveMaximum(lim) == IF lim.maximum = NoMax THEN U32_MAX ELSE lim.maximum

\* C1: grow(g) is atomic. Either it returns Ok, the length has grown by
\* exactly g and every appended slot is null, or it returns GrowOutOfBounds
\* and the length and all slots are as before the call.
C1_GrowAtomic ==
  [][ret'.op = "grow" =>
       \/ /\ ret'.res.ok
          /\ Len(elements') = Len(elements) + ret'.grow_by
          /\ \A i \in (Len(elements) + 1)..Len(elements') : elements'[i] = None
       \/ /\ ~ret'.res.ok
          /\ ret'.res.err.kind = "GrowOutOfBounds"
          /\ elements' = elements
          /\ limits' = limits]_vars

\* a successful grow by two slots of a table that already holds a function
C1_Witness ==
  /\ ret.op = "grow" /\ ret.res.ok /\ ret.grow_by = 2
  /\ Len(elements) = 3
  /\ elements[1] = Some("f1") /\ elements[2] = None /\ elements[3] = None

\* C2: the maximum is an inclusive bound. grow(by) succeeds exactly when
\* len() + by does not overflow and does not exceed the effective maximum,
\* so that a table can reach its maximum length.
C2_InclusiveMaximum ==
  [][ret'.op = "grow" =>
       (ret'.res.ok <=>
          /\ Len(elements) + ret'.grow_by <= USIZE_MAX
          /\ Len(elements) + ret'.grow_by <= EffectiveMaximum(limits))]_vars

\* C3: len() is the live slot count and never exceeds the effective maximum.
C3_LenWithinMaximum ==
  /\ TableEntity_len(elements) = Cardinality(DOMAIN elements)
  /\ TableEntity_len(elements) <= EffectiveMaximum(limits)

\* a table grown as far as grow lets it, after a failed and a successful call
C3_Witness ==
  /\ ret.op = "grow" /\ ret.res.ok /\ ret.grow_by > 0
  /\ limits.initial < Len(elements)
  /\ Len(elements) + 1 = EffectiveMaximum(limits)
  /\ \E i \in 1..Len(elements) : elements[i] # None

\* C4: get(o) and set(o, v) succeed iff o < len(); after a successful
\* set(o, v), get(o) returns v, and it keeps returning the slot's value
\* across every call that is not a successful set to o.
C4_GetSetRoundTrip ==
  [][/\ ret'.op \in {"get", "set"} => (ret'.res.ok <=> ret'.offset < Len(elements))
     /\ ret'.op = "get" => ret'.res = TableEntity_get(elements', ret'.offset)
     /\ \A o \in Usize :
          IF ret'.op = "set" /\ ret'.res.ok /\ ret'.offset = o
            THEN /\ ret'.new_value \in OptFuncRefs
                 /\ TableEntity_get(elements', o) = Ok(ret'.new_value)
            ELSE o < Len(elements) =>
                   TableEntity_get(elements', o) = TableEntity_get(elements, o)]_vars

\* a get that returns a function reference stored by an earlier set
C4_Witness ==
  /\ ret.op = "get" /\ ret.offset = 1
  /\ ret.res = Ok(Some("f1"))
  /\ elements[1] = Some("f2")

\* C5: get(o) and set(o, v) with o >= len() fail with
\* AccessOutOfBounds{current: len(), offset: o} and leave the table as it was.
C5_AccessOutOfBounds ==
  [][(ret'.op \in {"get", "set"} /\ ret'.offset >= Len(elements)) =>
       /\ ret'.res = Err(AccessOutOfBounds(Len(elements), ret'.offset))
       /\ elements' = elements
       /\ limits' = limits]_vars

\* get(5) on a table of length 3
C5_Witness ==
  /\ Len(elements) = 3
  /\ ret = [op |-> "get", offset |-> 5, res |-> Err(AccessOutOfBounds(3, 5))]

\* C6: a failing grow(by) returns GrowOutOfBounds{maximum: the effective
\* maximum, current: len() before the call, grow_by: by}; on a table made
\* with initial 2 and maximum 4, grow(1) succeeds with len() = 3 and then
\* grow(2) fails with GrowOutOfBounds{4, 3, 2} and len() stays 3.
C6_GrowOutOfBounds ==
  [][ret'.op = "grow" =>
       /\ ~ret'.res.ok =>
            /\ ret'.res.err =
                 GrowOutOfBounds(EffectiveMaximum(limits), Len(elements), ret'.grow_by)
            /\ Len(elements') = Len(elements)
       /\ (limits = [initial |-> 2, maximum |-> 4] /\ Len(elements) = 2
             /\ ret'.grow_by = 1) =>
            (ret'.res.ok /\ Len(elements') = 3)
       /\ (limits = [initial |-> 2, maximum |-> 4] /\ Len(elements) = 3
             /\ ret'.grow_by = 2) =>
            (ret'.res = Err(GrowOutOfBounds(4, 3, 2)) /\ Len(elements') = 3)]_vars

\* the second grow of the scenario
C6_Witness ==
  /\ limits = [initial |-> 2, maximum |-> 4]
  /\ Len(elements) = 3
  /\ ret = [op |-> "grow", grow_by |-> 2, res |-> Err(GrowOutOfBounds(4, 3, 2))]

(***************************************************************************)
(* Properties of ConstPool                                                 *)
(***************************************************************************)
\* C7: dedup law. alloc_const(v) for a value equal to one allocated before
\* returns the handle returned when v was first allocated and inserts
\* nothing, whatever was allocated in between; equal values never hold
\* different handles.
C7_DedupLaw ==
  [][/\ pret'.op = "alloc_const" =>
          \A p \in handed : p.value = pret'.value =>
             /\ pret'.out = Return(p.index)
             /\ ConstPool_len(values') = ConstPool_len(values)
             /\ values' = values
     /\ \A p, q \in handed' : p.value = q.value => p.index = q.index]_vars

\* the first constant is allocated again after two others
C7_Witness ==
  /\ pret = [op |-> "alloc_const", value |-> -1, out |-> Return(0)]
  /\ ConstPool_len(values) = 3
  /\ [value |-> -1, index |-> 0] \in handed

\* C8: non-dedup law. Different values never share a handle, and len() is
\* the number of distinct values allocated so far.
C8_NonDedupLaw ==
  /\ \A p, q \in handed : p.value # q.value => p.index # q.index
  /\ ConstPool_len(values) = Cardinality({p.value : p \in handed})

\* three different constants hold three different handles
C8_Witness ==
  /\ pret.op = "alloc_const" /\ ~pret.out.panic
  /\ Cardinality({p.value : p \in handed}) = 3
  /\ Cardinality({p.index : p \in handed}) = 3

\* C9: round trip and handle stability. Every handle alloc_const has
\* returned for v resolves to the untyped v in every later state, and a
\* position of the pool never changes its value.
C9_RoundTrip ==
  [][/\ \A p \in handed' :
          ConstPool_resolve(values', p.index) = Some(into_untyped(p.value))
     /\ pret'.op = "resolve" =>
          \A p \in handed : p.index = pret'.index =>
             pret'.res = Some(into_untyped(p.value))
     /\ \A i \in 1..Len(values.entities) :
          /\ i <= Len(values'.entities)
          /\ values'.entities[i] = values.entities[i]]_vars

\* the first handle is resolved after two further allocations
C9_Witness ==
  /\ pret = [op |-> "resolve", index |-> 0, res |-> Some(into_untyped(-1))]
  /\ ConstPool_len(values) = 3
  /\ [value |-> -1, index |-> 0] \in handed

\* C10: resolve(h) returns the stored value iff the position of h is below
\* len(), and None for every other handle; it neither panics nor changes
\* the pool.
C10_ResolveInRange ==
  [][pret'.op = "resolve" =>
       LET position == ConstRef_into_usize(pret'.index)
       IN  /\ IF position < ConstPool_len(values)
                THEN pret'.res = Some(values.entities[position + 1])
                ELSE pret'.res = None
           /\ values' = values
           /\ panicked' = FALSE]_vars

\* a handle just beyond a pool of two constants
C10_Witness ==
  /\ pret = [op |-> "resolve", index |-> 2, res |-> None]
  /\ ConstPool_len(values) = 2

(***************************************************************************)
(* Further properties of TableEntity                                       *)
(***************************************************************************)
\* C14 as stated: two calls of get(o) with no set in between return
\* identical results.
C14_GetIdempotent ==
  [][(ret'.op = "get" /\ probe.some /\ probe.val.offset = ret'.offset) =>
       ret'.res = probe.val.res]_vars

\* C14: two calls of get(o) with no set and no successful grow in between
\* return identical results, the same slot value or the same failure.
C14_GetIdempotentNoGrow ==
  [][(ret'.op = "get" /\ Repeats(ret'.offset)) => ret'.res = probe.val.res]_vars

\* a repeated get of a slot that holds a function, in a table at its maximum
C14_Witness ==
  /\ probe.some /\ probe.val.repeat
  /\ ret = [op |-> "get", offset |-> 1, res |-> Ok(Some("f1"))]
  /\ Len(elements) = limits.maximum

\* C16: new(limits) yields a table of limits.initial null slots whose
\* limits() is the given limits, and limits() returns that value after any
\* sequence of calls.
C16_NewAndLimits ==
  /\ [](ret.op = "new" =>
          /\ TableEntity_limits(limits) = ret.limits
          /\ TableEntity_len(elements) = ret.limits.initial
          /\ \A o \in Usize : o < ret.limits.initial =>
                TableEntity_get(elements, o) = Ok(None))
  /\ [][/\ TableEntity_limits(limits') = TableEntity_limits(limits)
        /\ ret'.op = "limits" => ret'.res = limits]_vars

\* limits() after the table has been grown and written
C16_Witness ==
  /\ ret.op = "limits"
  /\ ret.res = [initial |-> 2, maximum |-> 4]
  /\ Len(elements) = 3
  /\ elements[1] = Some("f1")

\* C17: slots are only appended and overwritten. len() never decreases and
\* a successful grow leaves every slot that existed before unchanged.
C17_AppendOnly ==
  [][/\ Len(elements') >= Len(elements)
     /\ (ret'.op = "grow" /\ ret'.res.ok) =>
          \A i \in 1..Len(elements) : elements'[i] = elements[i]]_vars

\* a successful grow of a table that holds two functions
C17_Witness ==
  /\ ret = [op |-> "grow", grow_by |-> 1, res |-> Ok(Unit)]
  /\ elements = <<Some("f1"), Some("f2"), None>>

\* C19: when len() + grow_by overflows, grow fails with GrowOutOfBounds and
\* changes nothing; the new length is never a wrapped-around sum.
C19_GrowOverflow ==
  [][(ret'.op = "grow" /\ Len(elements) + ret'.grow_by > USIZE_MAX) =>
       /\ ~ret'.res.ok
       /\ ret'.res.err.kind = "GrowOutOfBounds"
       /\ elements' = elements
       /\ limits' = limits]_vars

\* grow by usize::MAX on a table of three slots
C19_Witness ==
  /\ ret.op = "grow" /\ ret.grow_by = USIZE_MAX /\ ~ret.res.ok
  /\ Len(elements) = 3
  /\ elements[2] = Some("f1")

\* C20: a successful set(o, v) changes slot o only; get and len change
\* nothing.
C20_SetFrame ==
  [][/\ (ret'.op = "set" /\ ret'.res.ok) =>
          /\ Len(elements') = Len(elements)
          /\ limits' = limits
          /\ \A i \in 1..Len(elements) :
               i # ret'.offset + 1 => elements'[i] = elements[i]
     /\ ret'.op \in {"get", "len"} => (elements' = elements /\ limits' = limits)]_vars

\* a set of the middle slot of three, the first holding a function
C20_Witness ==
  /\ ret = [op |-> "set", offset |-> 1, new_value |-> Some("f2"), res |-> Ok(Unit)]
  /\ elements = <<Some("f1"), Some("f2"), None>>

(***************************************************************************)
(* Properties of ConstRef, ModuleBuilder and the Table handle              *)
(***************************************************************************)
\* C11: every handle alloc_const returns is below i32::MAX and survives
\* from_usize(into_usize(h)) unchanged; an allocation that needs a position
\* at or beyond i32::MAX panics instead of returning a handle.
C11_HandleCeiling ==
  [][pret'.op = "alloc_const" =>
       /\ pret'.out.panic <=>
            /\ \A p \in handed : p.value # pret'.value
            /\ ConstPool_len(values) >= I32_MAX
       /\ pret'.out.panic => (panicked' /\ values' = values /\ handed' = handed)
       /\ \A p \in handed' :
            /\ p.index < I32_MAX
            /\ ConstRef_from_usize(ConstRef_into_usize(p.index)) = Return(p.index)]_vars

\* the pool holds i32::MAX constants and one more is allocated
C11_Witness ==
  /\ panicked
  /\ pret.op = "alloc_const" /\ pret.out.panic
  /\ ConstPool_len(values) = I32_MAX
  /\ Cardinality(handed) = I32_MAX

\* C12: on a fresh builder the k-th push_func_type returns k - 1 and the
\* signature is stored at that position, without gaps or repeats.
C12_SequentialIndices ==
  /\ Len(pushed) = Len(func_types)
  /\ \A k \in 1..Len(pushed) :
       /\ pushed[k].index = k - 1
       /\ func_types[pushed[k].index + 1] = pushed[k].func_type
  /\ (bret.op = "push_func_type" /\ ~bret.out.panic) =>
       (bret.out.val = Len(pushed) - 1 /\ bret.func_type = pushed[Len(pushed)].func_type)

\* three pushes have returned 0, 1 and 2
C12_Witness ==
  /\ Len(pushed) = 3
  /\ pushed[1].index = 0 /\ pushed[2].index = 1 /\ pushed[3].index = 2
  /\ bret = [op |-> "push_func_type", func_type |-> "t2", out |-> Return(2)]
  /\ func_types = <<"t1", "t1", "t2">>

\* the calls made through a Table handle
HandleOps == {"limits", "len", "grow", "get", "set"}

\* C13: a call through a Table handle against a store that did not mint the
\* handle panics; it returns nothing and leaves every store as it was.
C13_ForeignStorePanics ==
  [][(sret'.op \in HandleOps /\ sret'.handle.store # sret'.ctx) =>
       /\ sret'.out = Panic
       /\ panicked'
       /\ stores' = stores]_vars

\* a set through the handle of the first store against the second store
C13_Witness ==
  /\ panicked
  /\ sret.op = "set" /\ sret.out.panic
  /\ sret.handle.store = "s1" /\ sret.ctx = "s2"

\* C15: finish() completes normally and yields the module.
C15_FinishCompletes == bret.op = "finish" => ~bret.out.panic

\* C18: all copies of a handle reach one entity of the store. After a
\* successful set or grow through one copy, get and len through every copy
\* see it; copying a handle, and the reading calls, change no store, and no
\* call adds an entity.
C18_CopiesAlias ==
  [][/\ \A y \in Holders :
          (sret'.op \in {"set", "grow"} /\ ~sret'.out.panic /\ sret'.out.val.ok
             /\ held[y] = sret'.handle) =>
            IF sret'.op = "set"
              THEN Table_get(stores', held'[y], sret'.ctx, sret'.args[1]).out
                     = Return(Ok(sret'.args[2]))
              ELSE Table_len(stores', held'[y], sret'.ctx).out
                     = Return(Table_len(stores, held[y], sret'.ctx).out.val + sret'.args[1])
     /\ sret'.op \in {"copy", "limits", "len", "get"} => stores' = stores
     /\ \A id \in StoreIds : Len(stores'[id].tables) = Len(stores[id].tables)]_vars

\* both holders have the same handle; a set through one is read through the other
C18_Witness ==
  /\ held["a"] = held["b"]
  /\ sret.op = "set" /\ sret.holder = "a" /\ sret.args = <<1, Some("f1")>>
  /\ sret.out = Return(Ok(Unit))
  /\ Table_get(stores, held["b"], sret.ctx, 1).out = Return(Ok(Some("f1")))

(***************************************************************************)
(* Properties of the `.wast` runner                                        *)
(***************************************************************************)
\* C21: instance_by_name_or_last returns an error only if no module instance
\* has been registered so far: once a module has been compiled and
\* instantiated, every call succeeds.
C21_SucceedsOnceInstantiated ==
  (cret.op = "instance_by_name_or_last" /\ Len(modules) > 0) => cret.res.ok

\* the per-kind counters of a profile
KindCounters ==
  {"module", "quote_module", "assert_malformed", "assert_invalid", "register",
   "invoke", "assert_trap", "assert_return", "assert_exhaustion",
   "assert_unlinkable", "assert_exception"}

\* the sum of the per-kind counters
KindSum(p) ==
  p.module + p.quote_module + p.assert_malformed + p.assert_invalid + p.register
    + p.invoke + p.assert_trap + p.assert_return + p.assert_exhaustion
    + p.assert_unlinkable + p.assert_exception

\* C22: each directive the loop takes adds one to `directives`, and, when its
\* arm completes, one to exactly one per-kind counter (an arm that returns
\* early or panics adds nothing); so directives minus the sum of the per-kind
\* counters is 0 or 1 at every point, and when execute_directives returns Ok,
\* directives equals that sum and the number of directives of the script.
C22_CountersAgree ==
  /\ [](profile.directives - KindSum(profile) \in {0, 1})
  /\ [](eret = Some(Return(Ok(Unit))) =>
          /\ profile.directives = KindSum(profile)
          /\ profile.directives = wast)
  /\ [][/\ profile'.directives - profile.directives = cursor' - cursor
        /\ cursor' - cursor \in {0, 1}
        /\ (directive.some /\ ~directive'.some) =>
             IF eret' = None
               THEN /\ Cardinality({f \in KindCounters : profile'[f] # profile[f]}) = 1
                    /\ KindSum(profile') = KindSum(profile) + 1
               ELSE profile' = profile]_vars

\* a script of a module, an invoke and an assert_return has run to Ok
C22_Witness ==
  /\ eret = Some(Return(Ok(Unit)))
  /\ wast = 3
  /\ profile.directives = 3
  /\ profile.module = 1 /\ profile.invoke = 1 /\ profile.assert_return = 1

====
